---- MODULE Spec2Model ----
(***************************************************************************)
(* Model of portfolio_lib.py: the Monte Carlo efficient-frontier simulator *)
(* with its two selectors, and the Hierarchical Risk Parity allocator      *)
(* (quasi-diagonal ordering, recursive bisection, label re-indexing).      *)
(*                                                                         *)
(* Numbers.  numpy float64 values are modelled as exact rationals plus the *)
(* three IEEE specials NaN, +Inf, -Inf; rounding error and the sign of     *)
(* zero are not modelled.  A square root is kept symbolically by its       *)
(* radicand, and values that contain one are compared through a monotone   *)
(* key, so that no comparison is approximated.                             *)
(***************************************************************************)
EXTENDS Integers, Sequences, FiniteSets, TLC

VARIABLES
    pc,              \* position of the running call
    entry,           \* the function that was invoked
    columns,         \* returns.columns: column position -> asset label
    link,            \* linkage matrix, rows 0..N-2: child ids and member count
    numItems,        \* getQuasiDiag: link[-1, 3]
    sortIx,          \* getQuasiDiag / getRecBisection: the order being built or consumed
    cov,             \* covariance matrix indexed by asset label
    cItems,          \* getRecBisection: the current list of groups
    w,               \* getRecBisection: weight per asset label
    hrp,             \* the returned Series: sequence of (label, weight), in index order
    mean_returns,    \* simulate_efficient_frontier: mean return per asset
    cov_matrix,      \* simulate_efficient_frontier: covariance matrix
    risk_free_rate,  \* simulate_efficient_frontier: r_f
    num_portfolios,  \* simulate_efficient_frontier: K
    results,         \* one record (std, ret, sharpe) per finished trial
    weights_record,  \* one weight vector per finished trial
    draws,           \* the samples np.random.random returned, per trial
    max_sharpe,      \* outcome of get_max_sharpe_ratio
    min_vol          \* outcome of get_min_volatility

hrpVars == <<entry, columns, link, numItems, sortIx, cov, cItems, w, hrp>>
mcVars == <<mean_returns, cov_matrix, risk_free_rate, num_portfolios, results,
            weights_record, draws, max_sharpe, min_vol>>
vars == <<pc, hrpVars, mcVars>>

----------------------------------------------------------------------------
(* Bounds of the model *)

\* largest number of assets handed to getRecBisection with a full covariance matrix
MaxAssets == 3
\* largest number of leaves of a cluster tree handed to getQuasiDiag
MaxLeaves == 4
\* largest number of assets in the runs that follow the bisection loop alone
MaxLoopAssets == 5
\* largest number of assets in a whole get_hrp_allocation run
MaxHrpAssets == 3
\* largest trial count K of a Monte Carlo run
MaxTrials == 2
\* np.random.random is drawn on the grid 0/G, 1/G, ..., (G-1)/G of [0, 1)
DrawGrid == 3
\* largest factor c the covariance matrix is scaled by
MaxScale == 3

----------------------------------------------------------------------------
(* float64 as exact rationals with NaN and the infinities *)

Abs(x) == IF x < 0 THEN -x ELSE x
Sign(x) == IF x > 0 THEN 1 ELSE IF x < 0 THEN -1 ELSE 0

RECURSIVE GCD(_, _)
GCD(a, b) == IF b = 0 THEN a ELSE GCD(b, a % b)

NaN == [k |-> "nan", n |-> 0, d |-> 1]
PInf == [k |-> "inf", n |-> 1, d |-> 1]
NInf == [k |-> "inf", n |-> -1, d |-> 1]

\* the finite value n/d in lowest terms, d > 0
Fin(n, d) ==
    LET g == GCD(Abs(n), Abs(d))
        s == IF d < 0 THEN -1 ELSE 1
    IN  [k |-> "fin", n |-> s * (n \div g), d |-> s * (d \div g)]

IsFin(x) == x.k = "fin"
IsNaN(x) == x.k = "nan"
IsInf(x) == x.k = "inf"
Inf(s) == IF s > 0 THEN PInf ELSE NInf

FNeg(x) == IF IsNaN(x) THEN NaN ELSE [x EXCEPT !.n = -x.n]

FAdd(x, y) ==
    IF IsNaN(x) \/ IsNaN(y) THEN NaN
    ELSE IF IsInf(x) /\ IsInf(y) THEN (IF x.n = y.n THEN x ELSE NaN)
    ELSE IF IsInf(x) THEN x
    ELSE IF IsInf(y) THEN y
    ELSE Fin(x.n * y.d + y.n * x.d, x.d * y.d)

FSub(x, y) == FAdd(x, FNeg(y))

FMul(x, y) ==
    IF IsNaN(x) \/ IsNaN(y) THEN NaN
    ELSE IF IsInf(x) \/ IsInf(y)
         THEN (IF x.n = 0 \/ y.n = 0 THEN NaN ELSE Inf(Sign(x.n) * Sign(y.n)))
    ELSE Fin(x.n * y.n, x.d * y.d)

\* numpy division: a zero divisor gives an infinity or NaN, never an exception
FDiv(x, y) ==
    IF IsNaN(x) \/ IsNaN(y) THEN NaN
    ELSE IF IsInf(x) /\ IsInf(y) THEN NaN
    ELSE IF IsInf(x) THEN Inf(x.n * (IF y.n < 0 THEN -1 ELSE 1))
    ELSE IF IsInf(y) THEN Fin(0, 1)
    ELSE IF y.n = 0 THEN (IF x.n = 0 THEN NaN ELSE Inf(x.n))
    ELSE Fin(x.n * y.d, x.d * y.n)

\* IEEE comparisons: false as soon as an operand is NaN
FLess(x, y) ==
    IF IsNaN(x) \/ IsNaN(y) THEN FALSE
    ELSE IF IsInf(x) THEN x.n < 0 /\ ~(IsInf(y) /\ y.n < 0)
    ELSE IF IsInf(y) THEN y.n > 0
    ELSE x.n * y.d < y.n * x.d

FEq(x, y) == ~IsNaN(x) /\ ~IsNaN(y) /\ x = y
FLeq(x, y) == FLess(x, y) \/ FEq(x, y)

One == Fin(1, 1)
Zero == Fin(0, 1)
FInt(i) == Fin(i, 1)

RECURSIVE FSum(_)
FSum(s) == IF Len(s) = 0 THEN Zero ELSE FAdd(FSum(SubSeq(s, 1, Len(s) - 1)), s[Len(s)])

----------------------------------------------------------------------------
(* Sequences and permutations *)

Range(s) == {s[p] : p \in DOMAIN s}
Perms(S) == {s \in [1..Cardinality(S) -> S] : Range(s) = S}

RECURSIVE Concat(_)
Concat(ss) == IF Len(ss) = 0 THEN <<>> ELSE Head(ss) \o Concat(Tail(ss))

\* Python's s[j:k] for 0 <= j <= k <= len(s)
Slice(s, j, k) == SubSeq(s, j + 1, k)

\* the values of f, a function on a finite set of integers, in ascending key order
RECURSIVE SortByKey(_)
SortByKey(f) ==
    IF DOMAIN f = {} THEN <<>>
    ELSE LET m == CHOOSE x \in DOMAIN f : \A y \in DOMAIN f : x <= y
         IN  <<f[m]>> \o SortByKey([x \in DOMAIN f \ {m} |-> f[x]])

----------------------------------------------------------------------------
(* Inputs: covariance matrices and cluster trees *)

\* variances, and covariances of distinct assets; the only behaviour of the
\* allocator that depends on a sign is a cluster variance of zero, which takes a
\* negative covariance
DiagVals == {1, 4}
OffVals == {-1, 0}

Labels(N) == 1..N

SetToSeq(S) == SortByKey([x \in S |-> x])

\* symmetric N x N integer matrices, indexed by asset label
SymMatrices(N) ==
    { [a \in Labels(N) |-> [b \in Labels(N) |->
          IF a = b THEN dg[a] ELSE IF a < b THEN od[<<a, b>>] ELSE od[<<b, a>>]]] :
        dg \in [Labels(N) -> DiagVals],
        od \in [{p \in Labels(N) \X Labels(N) : p[1] < p[2]} -> OffVals] }

RECURSIVE Det(_, _, _)
Det(m, rows, cols) ==
    IF Len(rows) = 0 THEN 1
    ELSE LET Minor(q) == Det(m, Tail(rows), SubSeq(cols, 1, q - 1) \o SubSeq(cols, q + 1, Len(cols)))
             RECURSIVE Expand(_)
             Expand(q) == IF q > Len(cols) THEN 0
                          ELSE (IF q % 2 = 1 THEN 1 ELSE -1) * m[rows[1]][cols[q]] * Minor(q)
                               + Expand(q + 1)
         IN  Expand(1)

\* positive semi-definite: every principal minor is >= 0
IsPSD(m, N) ==
    \A S \in SUBSET Labels(N) : Det(m, SetToSeq(S), SetToSeq(S)) >= 0

\* the covariance matrices of N assets: symmetric, positive semi-definite,
\* diagonal strictly positive
CovMatrices(N) == {m \in SymMatrices(N) : IsPSD(m, N)}

\* the trees over N leaves built in the first k merge rows: row r (0-based) makes
\* cluster N + r out of two identifiers not yet used as a child
Children(t) == {t[r].c0 : r \in DOMAIN t} \cup {t[r].c1 : r \in DOMAIN t}

\* the identifiers that row k (1-based) may merge: leaves and earlier clusters not
\* yet used as a child
Unmerged(t, N, k) == (0..(N + k - 2)) \ Children(t)

RECURSIVE TreesUpTo(_, _)
TreesUpTo(N, k) ==
    IF k = 0 THEN { <<>> }
    ELSE UNION { { t \o << [c0 |-> p[1], c1 |-> p[2]] >> :
                     p \in {q \in Unmerged(t, N, k) \X Unmerged(t, N, k) : q[1] # q[2]} } :
                 t \in TreesUpTo(N, k - 1) }

\* member count of identifier x in tree t over N leaves
RECURSIVE Count(_, _, _)
Count(t, N, x) ==
    IF x < N THEN 1 ELSE Count(t, N, t[x - N + 1].c0) + Count(t, N, t[x - N + 1].c1)

ValidTree(t, N) ==
    /\ \A r \in DOMAIN t : t[r].c0 # t[r].c1 /\ t[r].c0 < N + r - 1 /\ t[r].c1 < N + r - 1
    /\ \A r, q \in DOMAIN t : r # q => {t[r].c0, t[r].c1} \cap {t[q].c0, t[q].c1} = {}
    /\ Children(t) = 0..(2 * N - 3)

\* linkage matrices over N leaves, as link.astype(int) leaves them: rows 0..N-2,
\* columns 0, 1 (children) and 3 (member count); the distance column is not read
Linkages(N) ==
    { [r \in 0..(N - 2) |-> [c0 |-> t[r + 1].c0, c1 |-> t[r + 1].c1,
                             cnt |-> Count(t, N, N + r)]] :
        t \in {u \in TreesUpTo(N, N - 1) : ValidTree(u, N)} }

----------------------------------------------------------------------------
(* HRP: getIVP, getClusterVar *)

\* getIVP with a regularised inverse, 1 / (1 + diag): what a guard against a zero
\* variance written into the reciprocal would compute
getIVP_regularised(c, items) ==
    LET ivp == [p \in DOMAIN items |-> FDiv(One, FInt(1 + c[items[p]][items[p]]))]
        total == FSum(ivp)
    IN  [p \in DOMAIN items |-> FDiv(ivp[p], total)]

\* getIVP on the slice of c at the labels items: 1 / diag, divided by its sum
getIVP(c, items) ==
    LET ivp == [p \in DOMAIN items |-> FDiv(One, FInt(c[items[p]][items[p]]))]
        total == FSum(ivp)
    IN  [p \in DOMAIN items |-> FDiv(ivp[p], total)]

\* getClusterVar: (w.T . cov_slice) . w with w the inverse-variance weights
getClusterVar(c, items) ==
    LET wv == getIVP(c, items)
        row == [q \in DOMAIN items |->
                   FSum([p \in DOMAIN items |-> FMul(wv[p], FInt(c[items[p]][items[q]]))])]
    IN  FSum([q \in DOMAIN items |-> FMul(row[q], wv[q])])

----------------------------------------------------------------------------
(* HRP: getQuasiDiag *)

\* one pass of the while loop: the entries are spread to the even indices, every
\* cluster (value >= numItems) is overwritten by its first child, its second child
\* is added at the next odd index, and the whole is sorted by index and re-indexed
QuasiDiagPass_item1_twice(lk, nItems, six) ==
    LET even == [p \in DOMAIN six |-> 2 * (p - 1)]
        clusters == {p \in DOMAIN six : six[p] >= nItems}
        keys == {even[p] : p \in DOMAIN six} \cup {even[p] + 1 : p \in clusters}
        At(x) == LET p == (x \div 2) + 1
                 IN  IF p \in clusters THEN lk[six[p] - nItems].c0 ELSE six[p]
    IN  SortByKey([x \in keys |-> At(x)])

QuasiDiagPass(lk, nItems, six) ==
    LET even == [p \in DOMAIN six |-> 2 * (p - 1)]
        clusters == {p \in DOMAIN six : six[p] >= nItems}
        keys == {even[p] : p \in DOMAIN six} \cup {even[p] + 1 : p \in clusters}
        At(x) == LET p == (x \div 2) + 1
                 IN  IF x % 2 = 1 THEN lk[six[p] - nItems].c1
                     ELSE IF p \in clusters THEN lk[six[p] - nItems].c0
                     ELSE six[p]
    IN  SortByKey([x \in keys |-> At(x)])

SeqMax(s) == CHOOSE x \in Range(s) : \A y \in Range(s) : y <= x

\* lines 92-94
QuasiDiagEntry(lk) ==
    LET last == CHOOSE r \in DOMAIN lk : \A q \in DOMAIN lk : q <= r
    IN  [sortIx |-> <<lk[last].c0, lk[last].c1>>, numItems |-> lk[last].cnt]

\* lines 95-104: while sortIx.max() >= numItems
QuasiDiagLoop ==
    /\ pc = "quasi"
    /\ SeqMax(sortIx) >= numItems
    /\ sortIx' = QuasiDiagPass(link, numItems, sortIx)
    /\ UNCHANGED <<pc, entry, columns, link, numItems, cov, cItems, w, hrp, mcVars>>

\* line 105: return sortIx.tolist()
QuasiDiagReturn ==
    /\ pc = "quasi"
    /\ SeqMax(sortIx) < numItems
    /\ pc' = "quasi_returned"
    /\ UNCHANGED <<hrpVars, mcVars>>

----------------------------------------------------------------------------
(* HRP: getRecBisection *)

\* the bisection that keeps only the halves of more than one member
Bisect_nonsingleton_halves(groups) ==
    Concat([g \in DOMAIN groups |->
        SelectSeq(<< Slice(groups[g], 0, Len(groups[g]) \div 2),
                     Slice(groups[g], Len(groups[g]) \div 2, Len(groups[g])) >>,
                  LAMBDA h : Len(h) > 1)])

\* line 114: both halves of every group of more than one member, in order
Bisect(groups) ==
    Concat([g \in DOMAIN groups |->
        IF Len(groups[g]) > 1
        THEN << Slice(groups[g], 0, Len(groups[g]) \div 2),
                Slice(groups[g], Len(groups[g]) \div 2, Len(groups[g])) >>
        ELSE <<>>])

\* the split factor without the complement
SplitFactor_no_complement(cVar0, cVar1) == FDiv(cVar0, FAdd(cVar0, cVar1))

\* line 120
SplitFactor(cVar0, cVar1) == FSub(One, FDiv(cVar0, FAdd(cVar0, cVar1)))

\* lines 115-122 from index i (0-based) on: the weights after the scan, and whether
\* cItems[i + 1] was read past the end of the list (IndexError)
\* lines 121, 122: w[items] *= factor
ScaleGroup(wt, items, factor) ==
    [a \in DOMAIN wt |-> IF a \in Range(items) THEN FMul(wt[a], factor) ELSE wt[a]]

\* lines 116-122: one sibling pair
SplitPair(c, wt, cItems0, cItems1) ==
    LET cVar0 == getClusterVar(c, cItems0)
        cVar1 == getClusterVar(c, cItems1)
        alpha == SplitFactor(cVar0, cVar1)
    IN  ScaleGroup(ScaleGroup(wt, cItems0, alpha), cItems1, FSub(One, alpha))

\* lines 115-122 from index i (0-based) on: the weights after the scan, and whether
\* cItems[i + 1] was read past the end of the list (IndexError)
RECURSIVE ScanPairs(_, _, _, _)
ScanPairs(c, groups, wt, i) ==
    IF i >= Len(groups) THEN [w |-> wt, err |-> FALSE]
    ELSE IF i + 1 >= Len(groups) THEN [w |-> wt, err |-> TRUE]
    ELSE ScanPairs(c, groups, SplitPair(c, wt, groups[i + 1], groups[i + 2]), i + 2)

\* lines 111-112
RecBisectionEntry(six) ==
    [w |-> [a \in Range(six) |-> One], cItems |-> <<six>>]

\* lines 113-123 as a function of the entry state: the weights at return
RECURSIVE RunBisection(_, _, _)
RunBisection(c, groups, wt) ==
    IF Len(groups) = 0 THEN wt
    ELSE LET halves == Bisect(groups)
             scan == ScanPairs(c, halves, wt, 0)
         IN  IF scan.err THEN scan.w ELSE RunBisection(c, halves, scan.w)

\* the Series in its index order
AsSeries(six, wt) == [p \in DOMAIN six |-> [label |-> six[p], val |-> wt[six[p]]]]

\* getRecBisection(c, six): the returned Series
getRecBisection(c, six) ==
    AsSeries(six, RunBisection(c, RecBisectionEntry(six).cItems, RecBisectionEntry(six).w))

\* lines 113-122: one pass of the while loop
RecBisectionLoop ==
    /\ pc = "bisect"
    /\ Len(cItems) > 0
    /\ \E groups \in {Bisect(cItems)} : \E scan \in {ScanPairs(cov, groups, w, 0)} :
           /\ cItems' = groups
           /\ w' = scan.w
           /\ pc' = IF scan.err THEN "IndexError" ELSE "bisect"
    /\ UNCHANGED <<entry, columns, link, numItems, sortIx, cov, hrp, mcVars>>

\* line 123: return w
RecBisectionReturn ==
    /\ pc = "bisect"
    /\ Len(cItems) = 0
    /\ hrp' = AsSeries(sortIx, w)
    /\ pc' = "bisect_returned"
    /\ UNCHANGED <<entry, columns, link, numItems, sortIx, cov, cItems, w, mcVars>>

----------------------------------------------------------------------------
(* HRP: get_hrp_allocation *)

\* line 134: corr.index[sortIx].tolist(), positions to labels; line 135 enters
\* getRecBisection
RecoverLabels ==
    /\ pc = "quasi_returned"
    /\ entry = "get_hrp_allocation"
    /\ LET labelled == [p \in DOMAIN sortIx |-> columns[sortIx[p] + 1]]
       IN  /\ sortIx' = labelled
           /\ w' = RecBisectionEntry(labelled).w
           /\ cItems' = RecBisectionEntry(labelled).cItems
    /\ pc' = "bisect"
    /\ UNCHANGED <<entry, columns, link, numItems, cov, hrp, mcVars>>

\* Series.sort_index(): the entries in ascending label order
sort_index(series) ==
    SortByKey([l \in {series[p].label : p \in DOMAIN series} |->
                  CHOOSE e \in Range(series) : e.label = l])

\* line 136: return hrp.sort_index()
SortIndexReturn ==
    /\ pc = "bisect_returned"
    /\ entry = "get_hrp_allocation"
    /\ hrp' = sort_index(hrp)
    /\ pc' = "hrp_returned"
    /\ UNCHANGED <<entry, columns, link, numItems, sortIx, cov, cItems, w, mcVars>>

----------------------------------------------------------------------------
(* Monte Carlo: portfolio_performance, simulate_efficient_frontier *)

FAbs(x) == IF IsNaN(x) THEN NaN ELSE [x EXCEPT !.n = Abs(x.n)]

\* np.sqrt, kept by its radicand: [rad |-> x] stands for the square root of x, and
\* is NaN when x is NaN or negative
FSqrt(x) == IF IsNaN(x) \/ x.n < 0 THEN [rad |-> NaN] ELSE [rad |-> x]

\* lines 32-34: (returns, std)
portfolio_performance(weights, mean, covm) ==
    LET returns == FSum([a \in DOMAIN weights |-> FMul(mean[a], weights[a])])
        cw == [a \in DOMAIN weights |->
                  FSum([b \in DOMAIN weights |-> FMul(FInt(covm[a][b]), weights[b])])]
        variance == FSum([a \in DOMAIN weights |-> FMul(weights[a], cw[a])])
    IN  [ret |-> returns, std |-> FSqrt(variance)]

\* line 53: the quotient (portfolio_return - risk_free_rate) / portfolio_std, kept
\* as its numerator and the radicand of its divisor
SharpeRatio(ret, rf, std) == [num |-> FSub(ret, rf), rad |-> std.rad]

\* the value of a quotient num / sqrt(rad) through the strictly increasing map
\* x |-> x * |x|: NaN, an infinity, or a finite number ordered as the quotient is
SharpeKey(sh) == FDiv(FMul(sh.num, FAbs(sh.num)), sh.rad)

\* the value of sqrt(rad) through the strictly increasing map x |-> x * x
StdKey(std) == std.rad

\* np.random.random(num_assets): every sample is k / DrawGrid, 0 <= k < DrawGrid
Samples(N) == {[a \in 1..N |-> Fin(smp[a], DrawGrid)] : smp \in [1..N -> 0..(DrawGrid - 1)]}

\* line 46: weights /= np.sum(weights)
Normalise(sample) ==
    LET total == FSum(sample)
    IN  [a \in DOMAIN sample |-> FDiv(sample[a], total)]

\* lines 44-53: one trial
SimulateTrial ==
    /\ pc = "simulate"
    /\ Len(results) < num_portfolios
    /\ \E sample \in Samples(Len(mean_returns)) :
          \E weights \in {Normalise(sample)} :
          \E perf \in {portfolio_performance(weights, mean_returns, cov_matrix)} :
             /\ draws' = Append(draws, sample)
             /\ weights_record' = Append(weights_record, weights)
             /\ results' = Append(results,
                               [std |-> perf.std, ret |-> perf.ret,
                                sharpe |-> SharpeRatio(perf.ret, risk_free_rate, perf.std)])
    /\ UNCHANGED <<pc, hrpVars, mean_returns, cov_matrix, risk_free_rate, num_portfolios,
                   max_sharpe, min_vol>>

\* line 55: return results, weights_record
SimulateReturn ==
    /\ pc = "simulate"
    /\ Len(results) = num_portfolios
    /\ pc' = "simulated"
    /\ UNCHANGED <<hrpVars, mcVars>>

----------------------------------------------------------------------------
(* Monte Carlo: the selectors *)

FirstIndex(S) == CHOOSE x \in S : \A y \in S : x <= y

\* np.argmax of a non-empty array: the first NaN if there is one, else the first
\* entry no other entry exceeds (positions are 1-based in the model)
argmax(a) ==
    IF \E x \in DOMAIN a : IsNaN(a[x]) THEN FirstIndex({x \in DOMAIN a : IsNaN(a[x])})
    ELSE FirstIndex({x \in DOMAIN a : \A y \in DOMAIN a : FLeq(a[y], a[x])})

\* np.argmin of a non-empty array: the first NaN if there is one, else the first
\* entry that exceeds no other entry
argmin(a) ==
    IF \E x \in DOMAIN a : IsNaN(a[x]) THEN FirstIndex({x \in DOMAIN a : IsNaN(a[x])})
    ELSE FirstIndex({x \in DOMAIN a : \A y \in DOMAIN a : FLeq(a[x], a[y])})

NotCalled == [called |-> FALSE, raised |-> "none", value |-> <<>>]
Returned(v) == [called |-> TRUE, raised |-> "none", value |-> v]
Raised(e) == [called |-> TRUE, raised |-> e, value |-> <<>>]

\* the selector that answers an empty run with a default triple
get_max_sharpe_ratio_default(res, wrec) ==
    IF Len(res) = 0 THEN Returned(<<FSqrt(Zero), Zero, <<>>>>)
    ELSE LET idx == argmax([x \in DOMAIN res |-> SharpeKey(res[x].sharpe)])
         IN  Returned(<<res[idx].std, res[idx].ret, wrec[idx]>>)

\* lines 58-61; np.argmax raises ValueError on an empty array
get_max_sharpe_ratio(res, wrec) ==
    IF Len(res) = 0 THEN Raised("ValueError")
    ELSE LET idx == argmax([x \in DOMAIN res |-> SharpeKey(res[x].sharpe)])
         IN  Returned(<<res[idx].std, res[idx].ret, wrec[idx]>>)

\* lines 64-67; np.argmin raises ValueError on an empty array
get_min_volatility(res, wrec) ==
    IF Len(res) = 0 THEN Raised("ValueError")
    ELSE LET idx == argmin([x \in DOMAIN res |-> StdKey(res[x].std)])
         IN  Returned(<<res[idx].std, res[idx].ret, wrec[idx]>>)

GetMaxSharpeRatio ==
    /\ pc = "simulated"
    /\ ~max_sharpe.called
    /\ max_sharpe' = get_max_sharpe_ratio(results, weights_record)
    /\ UNCHANGED <<pc, hrpVars, mean_returns, cov_matrix, risk_free_rate, num_portfolios,
                   results, weights_record, draws, min_vol>>

GetMinVolatility ==
    /\ pc = "simulated"
    /\ ~min_vol.called
    /\ min_vol' = get_min_volatility(results, weights_record)
    /\ UNCHANGED <<pc, hrpVars, mean_returns, cov_matrix, risk_free_rate, num_portfolios,
                   results, weights_record, draws, max_sharpe>>

----------------------------------------------------------------------------
(* HRP: the calls that are modelled, and their specifications *)

NoHrpCall ==
    /\ entry = "none" /\ columns = <<>> /\ link = <<>> /\ numItems = 0
    /\ sortIx = <<>> /\ cov = <<>> /\ cItems = <<>> /\ w = <<>> /\ hrp = <<>>

NoMcCall ==
    /\ mean_returns = <<>> /\ cov_matrix = <<>> /\ risk_free_rate = Zero
    /\ num_portfolios = 0 /\ results = <<>> /\ weights_record = <<>>
    /\ draws = <<>> /\ max_sharpe = NotCalled /\ min_vol = NotCalled

\* getQuasiDiag(link) on every valid cluster tree of 2..MaxLeaves leaves
InitQuasiDiag ==
    /\ NoMcCall
    /\ entry = "getQuasiDiag"
    /\ \E N \in 2..MaxLeaves : link \in Linkages(N)
    /\ sortIx = QuasiDiagEntry(link).sortIx
    /\ numItems = QuasiDiagEntry(link).numItems
    /\ pc = "quasi"
    /\ columns = <<>> /\ cov = <<>> /\ cItems = <<>> /\ w = <<>> /\ hrp = <<>>

NextQuasiDiag == QuasiDiagLoop \/ QuasiDiagReturn

SpecQuasiDiag == InitQuasiDiag /\ [][NextQuasiDiag]_vars

\* getRecBisection(cov, sortIx) on every covariance matrix and every order of
\* 2..MaxAssets assets
InitRecBisection ==
    /\ NoMcCall
    /\ entry = "getRecBisection"
    /\ \E N \in 2..MaxAssets :
          /\ cov \in CovMatrices(N)
          /\ sortIx \in Perms(Labels(N))
    /\ w = RecBisectionEntry(sortIx).w
    /\ cItems = RecBisectionEntry(sortIx).cItems
    /\ pc = "bisect"
    /\ columns = <<>> /\ link = <<>> /\ numItems = 0 /\ hrp = <<>>

NextRecBisection == RecBisectionLoop \/ RecBisectionReturn

SpecRecBisection == InitRecBisection /\ [][NextRecBisection]_vars

\* the matrix with v on the diagonal and 0 elsewhere
ScalarMatrix(N, v) == [a \in Labels(N) |-> [b \in Labels(N) |-> IF a = b THEN v ELSE 0]]

\* getRecBisection on every order of 1..MaxLoopAssets uncorrelated assets
InitLoop ==
    /\ NoMcCall
    /\ entry = "getRecBisection"
    /\ \E N \in 1..MaxLoopAssets :
          /\ cov \in {ScalarMatrix(N, v) : v \in DiagVals}
          /\ sortIx \in Perms(Labels(N))
    /\ w = RecBisectionEntry(sortIx).w
    /\ cItems = RecBisectionEntry(sortIx).cItems
    /\ pc = "bisect"
    /\ columns = <<>> /\ link = <<>> /\ numItems = 0 /\ hrp = <<>>

SpecLoop == InitLoop /\ [][NextRecBisection]_vars

\* get_hrp_allocation(returns): lines 129-133 have computed the covariance matrix
\* and the linkage of the N columns and entered getQuasiDiag.  sch.linkage is a
\* library routine: its result is taken to be any linkage matrix of N leaves
\* (N - 1 rows, each merging two clusters not merged before)
InitHrp ==
    /\ NoMcCall
    /\ entry = "get_hrp_allocation"
    /\ \E N \in 2..MaxHrpAssets :
          /\ columns \in Perms(Labels(N))
          /\ cov \in CovMatrices(N)
          /\ link \in Linkages(N)
    /\ sortIx = QuasiDiagEntry(link).sortIx
    /\ numItems = QuasiDiagEntry(link).numItems
    /\ pc = "quasi"
    /\ cItems = <<>> /\ w = <<>> /\ hrp = <<>>

NextHrp ==
    \/ QuasiDiagLoop
    \/ QuasiDiagReturn
    \/ RecoverLabels
    \/ RecBisectionLoop
    \/ RecBisectionReturn
    \/ SortIndexReturn

SpecHrp == InitHrp /\ [][NextHrp]_vars

----------------------------------------------------------------------------
(* Claims about the HRP allocator *)

SeriesSum(series) == FSum([p \in DOMAIN series |-> series[p].val])

\* C1, as stated: whenever getRecBisection returns, the weights sum to 1 and every
\* weight is strictly positive
C1_SumOneAllPositive ==
    pc = "bisect_returned" =>
        /\ FEq(SeriesSum(hrp), One)
        /\ \A p \in DOMAIN hrp : FLess(Zero, hrp[p].val)

\* C3: the list getQuasiDiag returns on a valid tree over N leaves has length N and
\* holds each original index 0..N-1 exactly once, and no cluster identifier
C3_QuasiDiagIsPermutation ==
    pc = "quasi_returned" =>
        LET N == Cardinality(DOMAIN link) + 1
        IN  /\ Len(sortIx) = N
            /\ \A x \in 0..(N - 1) : Cardinality({p \in DOMAIN sortIx : sortIx[p] = x}) = 1
            /\ \A p \in DOMAIN sortIx : sortIx[p] < N

\* a tree of four leaves whose root merges two clusters has been ordered
C3_Witness ==
    /\ pc = "quasi_returned"
    /\ Cardinality(DOMAIN link) = 3
    /\ link[2].c0 >= 4 /\ link[2].c1 >= 4
    /\ Len(sortIx) = 4

\* C4, as stated: the Series get_hrp_allocation returns is indexed in the column
\* order of the return series
C4_ColumnOrder ==
    pc = "hrp_returned" =>
        /\ Len(hrp) = Len(columns)
        /\ \A p \in DOMAIN hrp : hrp[p].label = columns[p]

ScaleCov(c, f) == [a \in DOMAIN c |-> [b \in DOMAIN c[a] |-> f * c[a][b]]]

\* C8: the Series getRecBisection returns for cov is the one it returns for f * cov,
\* for every factor f in 2..MaxScale
C8_ScaleInvariant ==
    pc = "bisect_returned" =>
        \A f \in 2..MaxScale : getRecBisection(ScaleCov(cov, f), sortIx) = hrp

\* three assets, two of them correlated and of different variance, have been weighted
C8_Witness ==
    /\ pc = "bisect_returned"
    /\ Len(sortIx) = 3
    /\ cov[sortIx[2]][sortIx[3]] # 0
    /\ cov[sortIx[2]][sortIx[2]] # cov[sortIx[3]][sortIx[3]]
    /\ \A p \in DOMAIN hrp : IsFin(hrp[p].val)

\* C9: for two uncorrelated assets in the order [1, 2] with variances v0 and v1 the
\* weights are v1/(v0+v1) and v0/(v0+v1), the lower-variance asset gets more than
\* one half, and for diag(4, 1) they are 1/5 and 4/5
C9_TwoAssetSplit ==
    (pc = "bisect_returned" /\ sortIx = <<1, 2>> /\ cov[1][2] = 0) =>
        LET v0 == cov[1][1]
            v1 == cov[2][2]
        IN  /\ hrp[1].val = Fin(v1, v0 + v1)
            /\ hrp[2].val = Fin(v0, v0 + v1)
            /\ v0 < v1 => FLess(Fin(1, 2), hrp[1].val)
            /\ v1 < v0 => FLess(Fin(1, 2), hrp[2].val)
            /\ (v0 = 4 /\ v1 = 1) => (hrp[1].val = Fin(2, 10) /\ hrp[2].val = Fin(8, 10))

\* getRecBisection has returned for covariance diag(4, 1) and the order [1, 2]
C9_Witness ==
    /\ pc = "bisect_returned"
    /\ sortIx = <<1, 2>>
    /\ cov[1][2] = 0 /\ cov[1][1] = 4 /\ cov[2][2] = 1
    /\ hrp = << [label |-> 1, val |-> Fin(1, 5)], [label |-> 2, val |-> Fin(4, 5)] >>

IsSplit(g) == Len(g) > 1

\* the list new consists of the sibling pairs of the groups of old that have more
\* than one member, in order: left = first floor(len/2) members, right = the rest
SiblingPairs(old, new) ==
    LET parents == SelectSeq(old, IsSplit)
    IN  /\ Len(new) = 2 * Len(parents)
        /\ \A m \in DOMAIN parents :
              /\ new[2 * m - 1] \o new[2 * m] = parents[m]
              /\ Len(new[2 * m - 1]) = Len(parents[m]) \div 2
              /\ Len(new[2 * m - 1]) > 0 /\ Len(new[2 * m]) > 0

\* the size of the largest group; 0 for the empty list
MaxGroupLen(groups) ==
    IF Len(groups) = 0 THEN 0
    ELSE CHOOSE n \in {Len(groups[g]) : g \in DOMAIN groups} :
             \A g \in DOMAIN groups : Len(groups[g]) <= n

\* C10: every pass of the bisection loop builds an even-length list of sibling
\* pairs (left = first floor(len/2) members of a parent of more than one member,
\* right = the rest, both non-empty) and never reads past its end; the loop is left
\* exactly after the pass that found only groups of size 1; and it terminates,
\* because every pass strictly decreases the size of the largest group, which is a
\* natural number
C10_LoopStructureAndTermination ==
    [][ (pc = "bisect" /\ Len(cItems) > 0) =>
            /\ SiblingPairs(cItems, cItems')
            /\ pc' # "IndexError"
            /\ (cItems' = <<>>) <=> (\A g \in DOMAIN cItems : Len(cItems[g]) = 1)
            /\ MaxGroupLen(cItems') < MaxGroupLen(cItems) ]_vars

\* five assets, second pass: the groups [a], [b], [c], [d, e]
C10_Witness ==
    /\ pc = "bisect"
    /\ Len(sortIx) = 5
    /\ Len(cItems) = 4
    /\ Len(cItems[3]) = 1 /\ Len(cItems[4]) = 2

----------------------------------------------------------------------------
(* Monte Carlo: the runs that are modelled *)

\* mean returns of 1% and 3% a year
MeanVals == {Fin(1, 100), Fin(3, 100)}

\* two assets: perfectly anti-correlated with equal variance, uncorrelated with
\* variances 4 and 1, positively correlated with equal variance
McCovMatrices ==
    { <<<<1, -1>>, <<-1, 1>>>>, <<<<4, 0>>, <<0, 1>>>>, <<<<4, 2>>, <<2, 4>>>> }

\* line 36: risk_free_rate=0.02
DefaultRiskFreeRate == Fin(2, 100)

\* simulate_efficient_frontier(mean_returns, cov_matrix, K) with K in 0..MaxTrials,
\* after lines 40-42
InitMc ==
    /\ NoHrpCall
    /\ mean_returns \in [1..2 -> MeanVals]
    /\ cov_matrix \in McCovMatrices
    /\ risk_free_rate = DefaultRiskFreeRate
    /\ num_portfolios \in 0..MaxTrials
    /\ results = <<>> /\ weights_record = <<>> /\ draws = <<>>
    /\ max_sharpe = NotCalled /\ min_vol = NotCalled
    /\ pc = "simulate"

NextMc == SimulateTrial \/ SimulateReturn \/ GetMaxSharpeRatio \/ GetMinVolatility

SpecMc == InitMc /\ [][NextMc]_vars

----------------------------------------------------------------------------
(* Claims about the Monte Carlo simulator and the selectors *)

\* no record of the run has a larger Sharpe ratio than trial x (with a NaN in the
\* run this is the reading of ">=" most favourable to the claim)
MaxSharpe(x) ==
    \A y \in DOMAIN results :
        ~FLess(SharpeKey(results[x].sharpe), SharpeKey(results[y].sharpe))

\* no record of the run has a smaller volatility than trial x
MinVol(x) ==
    \A y \in DOMAIN results : ~FLess(StdKey(results[y].std), StdKey(results[x].std))

TrialTriple(x) == <<results[x].std, results[x].ret, weights_record[x]>>

\* C2, as stated: what each selector returns is the triple of the earliest trial
\* whose Sharpe ratio is >= (whose volatility is <=) that of every record of the run
C2_SelectorsReturnFirstExtreme ==
    /\ (max_sharpe.called /\ max_sharpe.raised = "none") =>
          \E x \in DOMAIN results :
             /\ MaxSharpe(x)
             /\ \A y \in 1..(x - 1) : ~MaxSharpe(y)
             /\ max_sharpe.value = TrialTriple(x)
    /\ (min_vol.called /\ min_vol.raised = "none") =>
          \E x \in DOMAIN results :
             /\ MinVol(x)
             /\ \A y \in 1..(x - 1) : ~MinVol(y)
             /\ min_vol.value = TrialTriple(x)

\* C5, as stated: every recorded weight vector is the drawn samples divided by their
\* sum, with all entries >= 0 and sum 1
C5_WeightsOnSimplex ==
    \A x \in DOMAIN weights_record :
        /\ \A a \in DOMAIN weights_record[x] : FLeq(Zero, weights_record[x][a])
        /\ FEq(FSum(weights_record[x]), One)

C7_ZeroVolatilityGuarded ==
    \A x \in DOMAIN results :
        StdKey(results[x].std) = Zero => IsFin(SharpeKey(results[x].sharpe))

====
